---- MODULE Spec2Model ----
(***************************************************************************)
(* Google Calendar plugin (src/main.ts, multi-calendar version, lines      *)
(* 349-828): OAuth2 access-token lifecycle and multi-calendar event        *)
(* retrieval, merge ordering and rendering; the settings tab with the      *)
(* authorization-code exchange and its credential and calendar handlers.   *)
(*                                                                         *)
(* Strings: "" stands for every falsy value a field can hold ('' in        *)
(* DEFAULT_SETTINGS, undefined/absent in a JSON response).                 *)
(* Instants are milliseconds counted from 2024-03-14T00:00:00Z, the clock  *)
(* (Date.now()) in milliseconds from the start of the session.             *)
(***************************************************************************)
EXTENDS Integers, Sequences, FiniteSets, TLC

\* ------------------------------------------------------------- bounds
MaxTicks == 2      \* clock steps of TickMs a behaviour may take
MaxCalls == 2      \* command invocations a behaviour may start
MaxEvents == 3     \* items the remote calendars hold altogether
MaxClicks == 2     \* settings-tab handler events a behaviour may take
MaxPending == 2    \* settings-tab handlers that may await their save at once

\* ---------------------------------------------------- program constants
BufferMs == 60000            \* "now + 60000": 1 min buffer
DefaultExpiresIn == 3600     \* "(data.expires_in || 3600)"
MsPerSecond == 1000          \* "* 1000"
TickMs == BufferMs \div 2

\* The two commands registered in onload; each callback runs
\* fetchAndInsertEvents and an invocation of each can be in flight at once.
Procs == {"today", "specificDate"}

VARIABLES
    settings,   \* this.settings: the credential and the calendar list
    stored,     \* what saveData last wrote (data.json)
    clock,      \* Date.now()
    remote,     \* the calendar provider: calendar id -> items of its event list
    inv,        \* per command callback: the locals of its running invocation
    log,        \* per command callback: what the invocation did (requests, saves, notices)
    editor,     \* the blocks inserted into the active note, in order
    calls,      \* command invocations started so far
    tab         \* the settings tab: what display() rendered, its handlers in flight

vars == <<settings, stored, clock, remote, inv, log, editor, calls, tab>>

\* ------------------------------------------------------- the credential
DEFAULT_SETTINGS ==
    [clientId |-> "", clientSecret |-> "", refreshToken |-> "", accessToken |-> "",
     accessTokenExpiry |-> 0,
     calendars |-> <<[id |-> "primary", label |-> "Primary Calendar"]>>]

Credential(s) ==
    [clientId |-> s.clientId, clientSecret |-> s.clientSecret,
     refreshToken |-> s.refreshToken, accessToken |-> s.accessToken,
     accessTokenExpiry |-> s.accessTokenExpiry]

\* Mutant: the guard also asks for a missing client id.
NotAuthenticatedNoClient(s) == s.refreshToken = "" /\ s.clientId = ""

\* if (!this.settings.refreshToken)
NotAuthenticated(s) == s.refreshToken = ""

\* Mutant: the comparison of the expiry is turned around.
TokenUsableFlipped(s, now) == s.accessToken # "" /\ s.accessTokenExpiry < now + BufferMs

\* Mutant: a call made while a refresh is in flight does not start its own.
TokenUsableOrRefreshing(s, now) ==
    \/ s.accessToken # "" /\ s.accessTokenExpiry > now + BufferMs
    \/ \E q \in Procs : inv[q].pc \in {"awaitRefresh", "awaitSave"}

\* this.settings.accessToken && this.settings.accessTokenExpiry > now + 60000
TokenUsable(s, now) == s.accessToken # "" /\ s.accessTokenExpiry > now + BufferMs

\* A token-endpoint outcome: requestUrl or JSON.parse throws, or the parsed body.
\* expires_in is [present, value]; an absent expires_in has value 0.
Absent == [present |-> FALSE, value |-> 0]
ExpiresInValues ==
    {Absent} \cup {[present |-> TRUE, value |-> v] : v \in {0, 30, 120, DefaultExpiresIn}}

\* data.expires_in || 3600   (|| takes the default for every falsy value: absent, 0)
ExpiresInOrDefault(e) == IF ~e.present \/ e.value = 0 THEN DefaultExpiresIn ELSE e.value

\* now + (data.expires_in || 3600) * 1000
ExpiryFrom(now, e) == now + ExpiresInOrDefault(e) * MsPerSecond

\* if (data.access_token)
HasAccessToken(data) == data.access_token # ""

\* Mutant: the refresh token is taken from the refresh response, which has none.
RefreshedSettingsRotating(s, now, data) ==
    [s EXCEPT !.accessToken = data.access_token,
              !.accessTokenExpiry = ExpiryFrom(now, data.expires_in),
              !.refreshToken = ""]

\* Mutant: the refresh clears the client id as well.
RefreshedSettingsClearingClient(s, now, data) ==
    [s EXCEPT !.accessToken = data.access_token,
              !.accessTokenExpiry = ExpiryFrom(now, data.expires_in),
              !.clientId = ""]

\* this.settings.accessToken = ...; this.settings.accessTokenExpiry = ...
RefreshedSettings(s, now, data) ==
    [s EXCEPT !.accessToken = data.access_token,
              !.accessTokenExpiry = ExpiryFrom(now, data.expires_in)]

\* Mutant: the token fields are assigned before data.access_token is tested.
SettingsAfterResponseEager(s, now, data) == RefreshedSettings(s, now, data)

\* Lines 436-444: the settings after the parsed response was handled.
SettingsAfterResponse(s, now, data) ==
    IF HasAccessToken(data) THEN RefreshedSettings(s, now, data) ELSE s

\* --------------------------------------------------- events and dates
\* An item of an event-list response. isNull marks a JSON null in the items
\* array; "" marks an absent field.
Item(summary, dateTime, date, description) ==
    [isNull |-> FALSE, summary |-> summary, dateTime |-> dateTime, date |-> date,
     description |-> description]

NullItem == [isNull |-> TRUE, summary |-> "", dateTime |-> "", date |-> "", description |-> ""]

RawItems ==
    { Item("Birthday", "", "2024-03-15", ""),
      Item("Trip", "", "2024-03-14", "pack bags"),
      Item("Standup", "2024-03-15T09:00:00Z", "", ""),
      Item("", "2024-03-15T10:00:00Z", "", ""),
      Item("Broken", "soon", "", ""),
      Item("Floating", "", "", ""),
      NullItem }

\* new Date(str): a Date is [isNull, valid, time]; an unparsable string gives an
\* Invalid Date, whose getTime() is NaN.
NullDate == [isNull |-> TRUE, valid |-> FALSE, time |-> 0]
InvalidDate == [isNull |-> FALSE, valid |-> FALSE, time |-> 0]
ValidDate(t) == [isNull |-> FALSE, valid |-> TRUE, time |-> t]

NewDate(str) ==
    CASE str = "2024-03-14" -> ValidDate(0)
      [] str = "2024-03-15" -> ValidDate(86400000)
      [] str = "2024-03-15T09:00:00Z" -> ValidDate(118800000)
      [] str = "2024-03-15T10:00:00Z" -> ValidDate(122400000)
      [] OTHER -> InvalidDate

\* Lines 498-508: one element of allEvents.
Normalize(event, calendar, calendarIndex) ==
    LET isAllDay == event.dateTime = ""
        startTimeStr == IF event.dateTime # "" THEN event.dateTime ELSE event.date
        startTime == IF startTimeStr # "" THEN NewDate(startTimeStr) ELSE NullDate
    IN  [event |-> event, calendarLabel |-> calendar.label,
         calendarIndex |-> calendarIndex, isAllDay |-> isAllDay, startTime |-> startTime]

\* for (const event of events) { ... allEvents.push(...) }: event.start on a null
\* item throws, after the items before it were pushed.
RECURSIVE PushedBeforeThrow(_, _, _)
PushedBeforeThrow(events, calendar, calendarIndex) ==
    IF events = <<>> \/ Head(events).isNull THEN <<>>
    ELSE <<Normalize(Head(events), calendar, calendarIndex)>>
         \o PushedBeforeThrow(Tail(events), calendar, calendarIndex)

LoopThrows(events) == \E k \in 1..Len(events) : events[k].isNull

\* ------------------------------------------------------ the merge sort
\* A JavaScript number or NaN.
NaN == [nan |-> TRUE, v |-> 0]
Num(n) == [nan |-> FALSE, v |-> n]
GetTime(d) == IF d.valid THEN Num(d.time) ELSE NaN
\* x !== y on numbers: NaN differs from everything
StrictNotEqual(x, y) == x.nan \/ y.nan \/ x.v # y.v
Minus(x, y) == IF x.nan \/ y.nan THEN NaN ELSE Num(x.v - y.v)
\* a.startTime && b.startTime: a Date object is truthy, null is not
Truthy(d) == ~d.isNull

\* Mutant: the start instants of two all-day events are compared as well.
ComparatorByInstant(a, b) ==
    IF a.isAllDay # b.isAllDay
    THEN Num(IF a.isAllDay THEN -1 ELSE 1)
    ELSE IF /\ Truthy(a.startTime) /\ Truthy(b.startTime)
            /\ StrictNotEqual(GetTime(a.startTime), GetTime(b.startTime))
         THEN Minus(GetTime(a.startTime), GetTime(b.startTime))
         ELSE Num(a.calendarIndex - b.calendarIndex)

\* Lines 521-536: the comparator passed to allEvents.sort
Comparator(a, b) ==
    IF a.isAllDay # b.isAllDay
    THEN Num(IF a.isAllDay THEN -1 ELSE 1)
    ELSE IF /\ ~a.isAllDay /\ ~b.isAllDay /\ Truthy(a.startTime) /\ Truthy(b.startTime)
            /\ StrictNotEqual(GetTime(a.startTime), GetTime(b.startTime))
         THEN Minus(GetTime(a.startTime), GetTime(b.startTime))
         ELSE Num(a.calendarIndex - b.calendarIndex)

\* Array.prototype.sort reads the comparator's result as a sign; NaN counts as 0.
Sgn(a, b) ==
    LET r == Comparator(a, b)
    IN  IF r.nan THEN 0 ELSE IF r.v < 0 THEN -1 ELSE IF r.v > 0 THEN 1 ELSE 0

Range(s) == {s[k] : k \in 1..Len(s)}

\* The comparator is consistent on the elements of s (a strict weak order).
Consistent(s) ==
    \A a \in Range(s), b \in Range(s) :
        /\ Sgn(a, b) = -Sgn(b, a)
        /\ \A c \in Range(s) :
              /\ (Sgn(a, b) = 0 /\ Sgn(b, c) = 0) => Sgn(a, c) = 0
              /\ (Sgn(a, b) < 0 /\ Sgn(b, c) < 0) => Sgn(a, c) < 0

ArrayPermutations(s) ==
    LET n == Len(s)
        bij == {f \in [1..n -> 1..n] : \A i, j \in 1..n : f[i] = f[j] => i = j}
    IN  {[k \in 1..n |-> s[f[k]]] : f \in bij}

\* The stable sort: element i goes after the elements that compare below it and
\* after the equal ones that stood before it.
StableSort(s) ==
    LET n == Len(s)
        rank(i) == 1 + Cardinality({j \in 1..n :
                        Sgn(s[j], s[i]) < 0 \/ (Sgn(s[j], s[i]) = 0 /\ j < i)})
    IN  [k \in 1..n |-> s[CHOOSE i \in 1..n : rank(i) = k]]

\* allEvents.sort(comparator): the stable sorted order when the comparator is
\* consistent; with an inconsistent comparator the order is implementation-defined,
\* some permutation of the array.
SortOutcomes(s) == IF Consistent(s) THEN {StableSort(s)} ELSE ArrayPermutations(s)

\* ----------------------------------------------------------- rendering
\* Lines 540-548: one "- **title** [calendar] (startTime)description" line.
RenderLine(item) ==
    LET event == item.event
    IN  [title |-> IF event.summary # "" THEN event.summary ELSE "(No title)",
         calendar |-> item.calendarLabel,
         startTime |-> IF event.dateTime # "" THEN event.dateTime
                       ELSE IF event.date # "" THEN event.date ELSE "All day",
         description |-> event.description]

\* Lines 539-548: the header naming the date, then one line per element.
Render(dateStr, allEvents) ==
    [header |-> dateStr, lines |-> [k \in 1..Len(allEvents) |-> RenderLine(allEvents[k])]]

\* ------------------------------------------------ invocations and notices
\* The date argument: a valid Date with its day as toISOString().split('T')[0]
\* gives it, or an Invalid Date, on which toISOString throws a RangeError.
Day(iso) == [valid |-> TRUE, day |-> iso]
InvalidDay == [valid |-> FALSE, day |-> ""]

\* Mutant: the day is lost from the string.
DateStrBlank(date) == ""

\* date.toISOString().split('T')[0]   (line 465)
DateStr(date) == date.day

IdleInv ==
    [pc |-> "idle", now |-> 0, tokenOk |-> FALSE,
     data |-> [access_token |-> "", expires_in |-> Absent], saving |-> DEFAULT_SETTINGS,
     date |-> InvalidDay, calendarIndex |-> 0, calendar |-> [id |-> "", label |-> ""],
     allEvents |-> <<>>]

EmptyLog ==
    [tokenRequests |-> 0, eventRequests |-> <<>>, saves |-> 0, notices |-> <<>>,
     tokenOutcome |-> "none", outcome |-> "none", failed |-> {}, gathered |-> <<>>,
     text |-> Render("", <<>>)]

\* new Notice(...): its kind and the text it names (a calendar label, a date);
\* the success notice also carries the two counts.
Notice(kind, text) == [kind |-> kind, text |-> text, events |-> 0, calendars |-> 0]

Notify(l, kind, text) == [l EXCEPT !.notices = Append(@, Notice(kind, text))]

\* Mutant: the caller goes on whatever ensureValidAccessToken returned.
ReturnedOk(i, ok) ==
    [i EXCEPT !.pc = "tokenReturned", !.tokenOk = TRUE, !.now = IdleInv.now,
              !.data = IdleInv.data, !.saving = IdleInv.saving]

\* ensureValidAccessToken returns ok to the awaiting fetchAndInsertEvents; its
\* locals (now, data) are gone.
Returned(i, ok) ==
    [i EXCEPT !.pc = "tokenReturned", !.tokenOk = ok, !.now = IdleInv.now,
              !.data = IdleInv.data, !.saving = IdleInv.saving]

\* The Date a command passes: new Date() for "today"; new Date(input.value) for
\* the date picker, an Invalid Date when the input was cleared.
DatesOf(p) ==
    IF p = "today" THEN {Day("2024-03-15")} ELSE {Day("2024-03-15"), InvalidDay}

\* ------------------------------------------- ensureValidAccessToken (409-449)
\* The callback of a command: fetchAndInsertEvents(date) runs into
\* ensureValidAccessToken, up to its first await or its return.
Command(p) ==
    /\ inv[p].pc \in {"idle", "done"}
    /\ calls < MaxCalls
    /\ calls' = calls + 1
    /\ \E d \in DatesOf(p) :
        IF NotAuthenticated(settings)
        THEN /\ inv' = [inv EXCEPT ![p] = Returned([IdleInv EXCEPT !.date = d], FALSE)]
             /\ log' = [log EXCEPT ![p] =
                    [Notify(EmptyLog, "NoRefreshToken", "") EXCEPT
                        !.tokenOutcome = "NotAuthenticated"]]
        ELSE IF TokenUsable(settings, clock)
        THEN /\ inv' = [inv EXCEPT ![p] = Returned([IdleInv EXCEPT !.date = d], TRUE)]
             /\ log' = [log EXCEPT ![p] = [EmptyLog EXCEPT !.tokenOutcome = "FastPath"]]
        ELSE /\ inv' = [inv EXCEPT ![p] = [IdleInv EXCEPT !.pc = "awaitRefresh",
                                                   !.date = d, !.now = clock]]
             /\ log' = [log EXCEPT ![p] = [EmptyLog EXCEPT !.tokenRequests = 1]]
    /\ UNCHANGED <<settings, stored, clock, remote, editor, tab>>

\* What the token endpoint can answer to a refresh request.
TokenBodies ==
    {[access_token |-> "", expires_in |-> Absent]}
        \cup {[access_token |-> "at1", expires_in |-> e] : e \in ExpiresInValues}

\* Mutant: the settings are saved on the failure path too.
RefreshThrowsSaving(p) ==
    /\ inv[p].pc = "awaitRefresh"
    /\ stored' = settings
    /\ inv' = [inv EXCEPT ![p] = Returned(@, FALSE)]
    /\ log' = [log EXCEPT ![p] =
            [Notify(@, "TokenRefreshError", "") EXCEPT
                !.tokenOutcome = "TransportFailure", !.saves = @ + 1]]
    /\ UNCHANGED <<settings, clock, remote, editor, calls, tab>>

\* await requestUrl(...) / JSON.parse throws: the catch block (445-448).
RefreshThrows(p) ==
    /\ inv[p].pc = "awaitRefresh"
    /\ inv' = [inv EXCEPT ![p] = Returned(@, FALSE)]
    /\ log' = [log EXCEPT ![p] =
            [Notify(@, "TokenRefreshError", "") EXCEPT !.tokenOutcome = "TransportFailure"]]
    /\ UNCHANGED <<settings, stored, clock, remote, editor, calls, tab>>

\* The response arrives and parses (435-444).
RefreshResponse(p) ==
    /\ inv[p].pc = "awaitRefresh"
    /\ \E data \in TokenBodies :
        /\ settings' = SettingsAfterResponse(settings, inv[p].now, data)
        /\ IF HasAccessToken(data)
           THEN /\ inv' = [inv EXCEPT ![p].pc = "awaitSave", ![p].data = data,
                                      ![p].saving = settings']
                /\ log' = log
           ELSE /\ inv' = [inv EXCEPT ![p] = Returned(@, FALSE)]
                /\ log' = [log EXCEPT ![p] =
                       [Notify(@, "RefreshFailed", "") EXCEPT
                           !.tokenOutcome = "RefreshRejected"]]
    /\ UNCHANGED <<stored, clock, remote, editor, calls, tab>>

\* Mutant: true is returned without the save having completed.
SaveDoneUnwritten(p) ==
    /\ inv[p].pc = "awaitSave"
    /\ inv' = [inv EXCEPT ![p] = Returned(@, TRUE)]
    /\ log' = [log EXCEPT ![p].saves = @ + 1, ![p].tokenOutcome = "Refreshed"]
    /\ UNCHANGED <<settings, stored, clock, remote, editor, calls, tab>>

\* await this.saveSettings() completes: saveData wrote the settings (402-404, 439-440).
SaveDone(p) ==
    /\ inv[p].pc = "awaitSave"
    /\ stored' = inv[p].saving
    /\ inv' = [inv EXCEPT ![p] = Returned(@, TRUE)]
    /\ log' = [log EXCEPT ![p].saves = @ + 1, ![p].tokenOutcome = "Refreshed"]
    /\ UNCHANGED <<settings, clock, remote, editor, calls, tab>>

\* await this.saveSettings() rejects: the catch block (445-448).
SaveThrows(p) ==
    /\ inv[p].pc = "awaitSave"
    /\ inv' = [inv EXCEPT ![p] = Returned(@, FALSE)]
    /\ log' = [log EXCEPT ![p] =
            [Notify(@, "TokenRefreshError", "") EXCEPT !.tokenOutcome = "TransportFailure"]]
    /\ UNCHANGED <<settings, stored, clock, remote, editor, calls, tab>>

\* Date.now() moves on while requests are in flight.
Tick ==
    /\ clock < MaxTicks * TickMs
    /\ clock' = clock + TickMs
    /\ UNCHANGED <<settings, stored, remote, inv, log, editor, calls, tab>>

\* ---------------------------------------------- fetchAndInsertEvents (454-562)
\* The for statement's test with the next calendar's request (479-492), or, past
\* the last calendar, the rest of the function (515-558): the "no events" return,
\* or the sort, the rendering and the insertion into the active note.
LoopFrom(p, l, calendarIndex, allEvents) ==
    IF calendarIndex < Len(settings.calendars)
    THEN LET calendar == settings.calendars[calendarIndex + 1]
         IN  /\ inv' = [inv EXCEPT ![p] = [@ EXCEPT !.pc = "awaitEvents",
                                                  !.calendarIndex = calendarIndex,
                                                  !.calendar = calendar,
                                                  !.allEvents = allEvents]]
             /\ log' = [log EXCEPT ![p] =
                    [l EXCEPT !.eventRequests = Append(@, calendar.id)]]
             /\ editor' = editor
    ELSE IF allEvents = <<>>
    THEN /\ inv' = [inv EXCEPT ![p] = [@ EXCEPT !.pc = "done",
                                              !.calendarIndex = calendarIndex,
                                              !.allEvents = allEvents]]
         /\ log' = [log EXCEPT ![p] =
                [Notify(l, "NoEvents", DateStr(inv[p].date)) EXCEPT !.outcome = "NoEvents"]]
         /\ editor' = editor
    ELSE \E sorted \in SortOutcomes(allEvents), activeView \in BOOLEAN :
            LET eventText == Render(DateStr(inv[p].date), sorted)
                done == [l EXCEPT !.gathered = allEvents, !.text = eventText]
            IN  /\ inv' = [inv EXCEPT ![p] = [@ EXCEPT !.pc = "done",
                                                     !.calendarIndex = calendarIndex,
                                                     !.allEvents = sorted]]
                /\ IF activeView
                   THEN /\ editor' = Append(editor, eventText)
                        /\ log' = [log EXCEPT ![p] =
                              [done EXCEPT !.outcome = "Inserted",
                                           !.notices = Append(@,
                                              [kind |-> "Inserted", text |-> "",
                                               events |-> Len(sorted),
                                               calendars |-> Len(settings.calendars)])]]
                   ELSE /\ editor' = editor
                        /\ log' = [log EXCEPT ![p] =
                              [Notify(done, "NoActiveNote", "") EXCEPT
                                  !.outcome = "NoActiveNote"]]

\* Lines 455-467 and the first pass of the loop: the continuation of
\* "await this.ensureValidAccessToken()". Line 465 stands before the try: on an
\* Invalid Date the RangeError ends the invocation with no Notice.
AfterToken(p) ==
    /\ inv[p].pc = "tokenReturned"
    /\ IF ~inv[p].tokenOk
       THEN /\ inv' = [inv EXCEPT ![p].pc = "done"]
            /\ log' = [log EXCEPT ![p].outcome = "AuthFailed"]
            /\ editor' = editor
       ELSE IF Len(settings.calendars) = 0
       THEN /\ inv' = [inv EXCEPT ![p].pc = "done"]
            /\ log' = [log EXCEPT ![p] =
                   [Notify(@, "NoCalendars", "") EXCEPT !.outcome = "NoCalendars"]]
            /\ editor' = editor
       ELSE IF ~inv[p].date.valid
       THEN /\ inv' = [inv EXCEPT ![p].pc = "done"]
            /\ log' = [log EXCEPT ![p].outcome = "RangeError"]
            /\ editor' = editor
       ELSE LoopFrom(p, log[p], 0, <<>>)
    /\ UNCHANGED <<settings, stored, clock, remote, calls, tab>>

\* The diagnostic of the inner catch (510-512).
SourceFailed(l, calendar, calendarIndex) ==
    [Notify(l, "SourceError", calendar.label) EXCEPT !.failed = @ \cup {calendarIndex}]

\* requestUrl or JSON.parse throws for the calendar being fetched: the inner
\* catch, then the next pass of the loop.
EventsThrows(p) ==
    /\ inv[p].pc = "awaitEvents"
    /\ LoopFrom(p, SourceFailed(log[p], inv[p].calendar, inv[p].calendarIndex),
                inv[p].calendarIndex + 1, inv[p].allEvents)
    /\ UNCHANGED <<settings, stored, clock, remote, calls, tab>>

\* The event list arrives and parses (494-509), then the next pass of the loop.
EventsResponse(p) ==
    /\ inv[p].pc = "awaitEvents"
    /\ inv[p].calendar.id \in DOMAIN remote
    /\ LET events == remote[inv[p].calendar.id]
           pushed == inv[p].allEvents
                        \o PushedBeforeThrow(events, inv[p].calendar, inv[p].calendarIndex)
           l == IF LoopThrows(events)
                THEN SourceFailed(log[p], inv[p].calendar, inv[p].calendarIndex)
                ELSE log[p]
       IN  LoopFrom(p, l, inv[p].calendarIndex + 1, pushed)
    /\ UNCHANGED <<settings, stored, clock, remote, calls, tab>>

\* ------------------------------------------------- the settings tab (576-794)
\* The tab before the user opens it. rows counts the calendar rows the last
\* display() rendered (the closures' i ranges over 0..rows-1), shown holds the
\* calendars on these rows and listed the length the list had then; pending holds
\* the handlers awaiting saveSettings; pc, before, saving, requests and outcome
\* belong to the running or last exchangeCodeForToken; handler names the last
\* handler run and row the row it was run on.
ClosedTab ==
    [open |-> FALSE, rows |-> 0, shown |-> <<>>, listed |-> 0,
     pending |-> <<>>, clicks |-> 0, handler |-> "none", row |-> 0,
     pc |-> "idle", before |-> Credential(DEFAULT_SETTINGS), saving |-> DEFAULT_SETTINGS,
     requests |-> 0, outcome |-> "none"]

\* An element of the calendar array that is undefined (a hole, or an element
\* assigned undefined).
Undefined == [undefined |-> TRUE]

IsCalendar(c) == "id" \in DOMAIN c

\* The rows display() gets to render (645-712): "calendar.label" (656) throws on
\* an undefined element, which ends display() before that row's handlers, the
\* rows after it and the Add button exist.
RenderedRows(calendars) ==
    IF \A k \in 1..Len(calendars) : IsCalendar(calendars[k]) THEN Len(calendars)
    ELSE (CHOOSE k \in 1..Len(calendars) :
              /\ ~IsCalendar(calendars[k])
              /\ \A j \in 1..(k - 1) : IsCalendar(calendars[j])) - 1

\* this.display(): the tab as rendered from the calendar list.
Rendered(t, calendars) ==
    [t EXCEPT !.rows = RenderedRows(calendars),
              !.shown = SubSeq(calendars, 1, RenderedRows(calendars)),
              !.listed = Len(calendars)]

\* A handler event: the handler's name is noted and the event counted.
Handled(t, name) == [t EXCEPT !.handler = name, !.clicks = @ + 1]

\* "await this.plugin.saveSettings()" inside a handler: saveData was handed the
\* settings; then is what the handler does after the await.
Awaiting(t, s, then) == [t EXCEPT !.pending = Append(@, [snapshot |-> s, then |-> then])]

RemoveAt(s, k) == [j \in 1..(Len(s) - 1) |-> IF j < k THEN s[j] ELSE s[j + 1]]

\* The user opens the settings tab: display() (576-727).
Display ==
    /\ ~tab.open
    /\ tab' = Rendered([tab EXCEPT !.open = TRUE], settings.calendars)
    /\ UNCHANGED <<settings, stored, clock, remote, inv, log, editor, calls>>

CanHandle == tab.open /\ tab.clicks < MaxClicks

\* Client ID onChange (589-592).
ClientIdChange ==
    /\ CanHandle /\ Len(tab.pending) < MaxPending
    /\ \E value \in {"", "cid2"} :
        /\ settings' = [settings EXCEPT !.clientId = value]
        /\ tab' = Awaiting(Handled(tab, "clientId"), settings', "none")
    /\ UNCHANGED <<stored, clock, remote, inv, log, editor, calls>>

\* Client Secret onChange (602-605).
ClientSecretChange ==
    /\ CanHandle /\ Len(tab.pending) < MaxPending
    /\ \E value \in {"sec2"} :
        /\ settings' = [settings EXCEPT !.clientSecret = value]
        /\ tab' = Awaiting(Handled(tab, "clientSecret"), settings', "none")
    /\ UNCHANGED <<stored, clock, remote, inv, log, editor, calls>>

\* calendars.splice(i, 1): removes the element at index i, nothing when there is none.
Splice(calendars, i) == IF i < Len(calendars) THEN RemoveAt(calendars, i + 1) ELSE calendars

\* Delete button of the row rendered with index i (707-711), up to its await.
DeleteClick ==
    /\ CanHandle /\ Len(tab.pending) < MaxPending
    /\ \E i \in 0..(tab.rows - 1) :
        /\ settings' = [settings EXCEPT !.calendars = Splice(@, i)]
        /\ tab' = Awaiting([Handled(tab, "delete") EXCEPT !.row = i], settings', "display")
    /\ UNCHANGED <<stored, clock, remote, inv, log, editor, calls>>

\* [calendars[i], calendars[i - 1]] = [calendars[i - 1], calendars[i]]: the two
\* reads give undefined past the end of the array, and the two assignments
\* lengthen it to i + 1 where it was shorter.
SwapUp(calendars, i) ==
    LET n == IF Len(calendars) > i THEN Len(calendars) ELSE i + 1
        a == [k \in 1..n |-> IF k <= Len(calendars) THEN calendars[k] ELSE Undefined]
    IN  [a EXCEPT ![i + 1] = a[i], ![i] = a[i + 1]]

\* Move-up button of the row rendered with index i (678-687), up to its await;
\* the button of row 0 is disabled.
MoveUpClick ==
    /\ CanHandle /\ Len(tab.pending) < MaxPending
    /\ \E i \in 1..(tab.rows - 1) :
        /\ settings' = [settings EXCEPT !.calendars = SwapUp(@, i)]
        /\ tab' = Awaiting([Handled(tab, "moveUp") EXCEPT !.row = i], settings', "display")
    /\ UNCHANGED <<stored, clock, remote, inv, log, editor, calls>>

\* Move-down button of the row rendered with index i (693-702), up to its await;
\* the button of the row that was last when rendered is disabled. The handler
\* does nothing when i is not below the last index of the array as it is now.
MoveDownClick ==
    /\ CanHandle /\ Len(tab.pending) < MaxPending
    /\ \E i \in 0..(tab.rows - 1) :
        /\ i # tab.listed - 1
        /\ IF i < Len(settings.calendars) - 1
           THEN /\ settings' = [settings EXCEPT !.calendars = SwapUp(@, i + 1)]
                /\ tab' = Awaiting([Handled(tab, "moveDown") EXCEPT !.row = i],
                                   settings', "display")
           ELSE /\ settings' = settings
                /\ tab' = [Handled(tab, "moveDown") EXCEPT !.row = i]
    /\ UNCHANGED <<stored, clock, remote, inv, log, editor, calls>>

\* "+ Add Calendar" (718-725), up to its await; the button exists when display()
\* ran to its end.
AddClick ==
    /\ CanHandle /\ Len(tab.pending) < MaxPending
    /\ tab.rows = tab.listed
    /\ settings' = [settings EXCEPT !.calendars =
            Append(@, [id |-> "primary",
                       label |-> "Calendar " \o ToString(Len(@) + 1)])]
    /\ tab' = Awaiting([Handled(tab, "add") EXCEPT !.row = tab.rows], settings', "display")
    /\ UNCHANGED <<stored, clock, remote, inv, log, editor, calls>>

\* saveSettings of a handler completes; the handler goes on, to this.display()
\* where it has one.
HandlerSaveDone ==
    /\ \E k \in 1..Len(tab.pending) :
        /\ stored' = tab.pending[k].snapshot
        /\ tab' = LET t == [tab EXCEPT !.pending = RemoveAt(@, k)]
                  IN  IF tab.pending[k].then = "display"
                      THEN Rendered(t, settings.calendars) ELSE t
    /\ UNCHANGED <<settings, clock, remote, inv, log, editor, calls>>

\* saveSettings of a handler rejects: the handler ends there.
HandlerSaveThrows ==
    /\ \E k \in 1..Len(tab.pending) :
        tab' = [tab EXCEPT !.pending = RemoveAt(@, k)]
    /\ UNCHANGED <<settings, stored, clock, remote, inv, log, editor, calls>>

\* ------------------------------------------- exchangeCodeForToken (759-794)
\* What the token endpoint can answer to a code exchange.
ExchangeBodies ==
    {[refresh_token |-> "", access_token |-> "", expires_in |-> Absent]}
        \cup {[refresh_token |-> "rt1", access_token |-> "at2", expires_in |-> e] :
                 e \in {Absent, [present |-> TRUE, value |-> 30]}}

\* Lines 782-784.
ExchangedSettings(s, now, data) ==
    [s EXCEPT !.refreshToken = data.refresh_token,
              !.accessToken = data.access_token,
              !.accessTokenExpiry = ExpiryFrom(now, data.expires_in)]

\* if (data.refresh_token) ... else ...   (781-790): the settings afterwards.
SettingsAfterExchange(s, now, data) ==
    IF data.refresh_token # "" THEN ExchangedSettings(s, now, data) ELSE s

\* if (!clientId || !clientSecret)
MissingCredentials(s) == s.clientId = "" \/ s.clientSecret = ""

\* Authorization Code onChange (625-629) into exchangeCodeForToken, up to its
\* first await or its return.
ExchangeCode ==
    /\ CanHandle /\ tab.pc = "idle"
    /\ \E code \in {"", "4/0Ab"} :
        LET t == [Handled(tab, "authCode") EXCEPT
                     !.before = Credential(settings), !.requests = 0, !.outcome = "none"]
        IN  tab' = IF code = "" THEN Handled(tab, "authCode")
                   ELSE IF MissingCredentials(settings)
                   THEN [t EXCEPT !.outcome = "MissingCredentials",
                                  !.before = ClosedTab.before]
                   ELSE [t EXCEPT !.pc = "awaitExchange", !.requests = 1]
    /\ UNCHANGED <<settings, stored, clock, remote, inv, log, editor, calls>>

\* await requestUrl(...) / JSON.parse throws: the catch block (791-793).
ExchangeThrows ==
    /\ tab.pc = "awaitExchange"
    /\ tab' = [tab EXCEPT !.pc = "idle", !.outcome = "ExchangeError",
                          !.before = ClosedTab.before]
    /\ UNCHANGED <<settings, stored, clock, remote, inv, log, editor, calls>>

\* The response arrives and parses (779-790).
ExchangeResponse ==
    /\ tab.pc = "awaitExchange"
    /\ \E data \in ExchangeBodies :
        /\ settings' = SettingsAfterExchange(settings, clock, data)
        /\ tab' = IF data.refresh_token # ""
                  THEN [tab EXCEPT !.pc = "awaitSave", !.saving = settings']
                  ELSE [tab EXCEPT !.pc = "idle", !.outcome = "ExchangeRejected",
                                   !.before = ClosedTab.before]
    /\ UNCHANGED <<stored, clock, remote, inv, log, editor, calls>>

\* await this.plugin.saveSettings() completes: the success Notice and
\* this.display() (785-787).
ExchangeSaveDone ==
    /\ tab.pc = "awaitSave"
    /\ stored' = tab.saving
    /\ tab' = Rendered([tab EXCEPT !.pc = "idle", !.outcome = "Complete",
                                   !.saving = ClosedTab.saving,
                                   !.before = ClosedTab.before],
                       settings.calendars)
    /\ UNCHANGED <<settings, clock, remote, inv, log, editor, calls>>

\* await this.plugin.saveSettings() rejects: the catch block (791-793).
ExchangeSaveThrows ==
    /\ tab.pc = "awaitSave"
    /\ tab' = [tab EXCEPT !.pc = "idle", !.outcome = "ExchangeError",
                          !.saving = ClosedTab.saving, !.before = ClosedTab.before]
    /\ UNCHANGED <<settings, stored, clock, remote, inv, log, editor, calls>>


\* ------------------------------------------------------ specifications
CalendarIds == {"primary", "team@example.com"}

RECURSIVE ItemSeqs(_)
\* The sequences of exactly n items
ItemSeqs(n) ==
    IF n = 0 THEN {<<>>}
    ELSE {<<x>> \o s : x \in RawItems, s \in ItemSeqs(n - 1)}

\* What the two remote calendars can hold: at most n items altogether.
Worlds(n) ==
    UNION {UNION {{[id \in CalendarIds |-> IF id = "primary" THEN a ELSE b] :
                        a \in ItemSeqs(k), b \in ItemSeqs(m)} : m \in 0..(n - k)} :
              k \in 0..n}

\* The calendar lists a session can start from (loadSettings, 398-400).
CalendarLists ==
    { <<>>,
      DEFAULT_SETTINGS.calendars,
      <<[id |-> "primary", label |-> "Work"], [id |-> "team@example.com", label |-> "Team"]>> }

\* More of them: an unlabelled calendar, a calendar the provider no longer has.
MoreCalendarLists ==
    CalendarLists \cup
    { <<[id |-> "team@example.com", label |-> ""], [id |-> "primary", label |-> "Work"],
        [id |-> "gone@example.com", label |-> "Old"]>> }

\* The credentials a session can start from: never authenticated, or what an
\* earlier session saved after the code exchange and later refreshes.
Authenticated(accessToken, accessTokenExpiry) ==
    [clientId |-> "cid", clientSecret |-> "sec", refreshToken |-> "rt0",
     accessToken |-> accessToken, accessTokenExpiry |-> accessTokenExpiry]

StartCredentials ==
    { Credential(DEFAULT_SETTINGS),
      [Credential(DEFAULT_SETTINGS) EXCEPT !.clientId = "cid", !.clientSecret = "sec"],
      Authenticated("", 0),
      Authenticated("at0", 3 * TickMs),
      Authenticated("at0", DefaultExpiresIn * MsPerSecond) }

WithCalendars(c, calendars) ==
    [clientId |-> c.clientId, clientSecret |-> c.clientSecret,
     refreshToken |-> c.refreshToken, accessToken |-> c.accessToken,
     accessTokenExpiry |-> c.accessTokenExpiry, calendars |-> calendars]

InitFrom(credentials, lists, worlds, started) ==
    /\ settings \in {WithCalendars(c, l) : c \in credentials, l \in lists}
    /\ stored = settings
    /\ clock = 0
    /\ remote \in worlds
    /\ inv = [p \in Procs |-> IdleInv]
    /\ log = [p \in Procs |-> EmptyLog]
    /\ editor = <<>>
    /\ calls = started
    /\ tab = ClosedTab

Scenario ==
    [id \in CalendarIds |->
        IF id = "primary" THEN <<Item("Standup", "2024-03-15T09:00:00Z", "", "")>>
        ELSE <<Item("Birthday", "", "2024-03-15", "")>>]

Init == InitFrom(StartCredentials, CalendarLists, {Scenario}, 0)

Next ==
    \/ \E p \in Procs :
          \/ Command(p)
          \/ RefreshThrows(p)
          \/ RefreshResponse(p)
          \/ SaveDone(p)
          \/ SaveThrows(p)
          \/ AfterToken(p)
          \/ EventsThrows(p)
          \/ EventsResponse(p)
    \/ Tick

Spec == Init /\ [][Next]_vars

\* One command at a time, over every content of the remote calendars.
InitFetch ==
    \/ InitFrom({Authenticated("at0", DefaultExpiresIn * MsPerSecond)},
                MoreCalendarLists, Worlds(MaxEvents), MaxCalls - 1)
    \/ InitFrom({Authenticated("", 0)}, CalendarLists, {Scenario}, MaxCalls - 1)

NextFetch ==
    \E p \in {"today"} :
        \/ Command(p)
        \/ RefreshThrows(p)
        \/ RefreshResponse(p)
        \/ SaveDone(p)
        \/ SaveThrows(p)
        \/ AfterToken(p)
        \/ EventsThrows(p)
        \/ EventsResponse(p)

SpecFetch == InitFetch /\ [][NextFetch]_vars

\* The settings tab open beside one command: the code exchange, the credential
\* fields and the calendar rows are edited while a fetch may be in flight.
TabCredentials ==
    { [Credential(DEFAULT_SETTINGS) EXCEPT !.clientId = "cid", !.clientSecret = "sec"],
      Authenticated("", 0) }

TabCalendarLists ==
    { <<[id |-> "primary", label |-> "Work"], [id |-> "team@example.com", label |-> "Team"]>> }

InitTab == InitFrom(TabCredentials, TabCalendarLists, {Scenario}, MaxCalls - 1)

NextTab ==
    \/ \E p \in {"today"} :
          \/ Command(p)
          \/ RefreshThrows(p)
          \/ RefreshResponse(p)
          \/ SaveDone(p)
          \/ SaveThrows(p)
          \/ AfterToken(p)
          \/ EventsThrows(p)
          \/ EventsResponse(p)
    \/ Display
    \/ ClientIdChange
    \/ ClientSecretChange
    \/ DeleteClick
    \/ HandlerSaveDone
    \/ HandlerSaveThrows
    \/ ExchangeCode
    \/ ExchangeThrows
    \/ ExchangeResponse
    \/ ExchangeSaveDone
    \/ ExchangeSaveThrows

SpecTab == InitTab /\ [][NextTab]_vars

\* The calendar rows of the settings tab alone: add, move up, move down and
\* delete, with clicks handled while earlier handlers await their save.
InitRows ==
    InitFrom({Authenticated("at0", DefaultExpiresIn * MsPerSecond)},
             MoreCalendarLists, {Scenario}, 0)

NextRows ==
    \/ Display
    \/ AddClick
    \/ MoveUpClick
    \/ MoveDownClick
    \/ DeleteClick
    \/ HandlerSaveDone
    \/ HandlerSaveThrows

SpecRows == InitRows /\ [][NextRows]_vars

\* ================================================================ claims
\* p enters fetchAndInsertEvents, and with it ensureValidAccessToken.
Called(p) == inv[p].pc \in {"idle", "done"} /\ inv'[p].pc \notin {"idle", "done"}

\* ensureValidAccessToken of p has returned to its caller.
TokenReturned(p) == inv[p].pc = "tokenReturned"

\* C1: whenever ensureValidAccessToken is called with an empty refreshToken, it
\* returns false as "not authenticated" in that very step, having issued no
\* request to the token endpoint (and none to a calendar).
C1_NotAuthenticatedNoNetwork ==
    [][\A p \in Procs :
          (Called(p) /\ settings.refreshToken = "") =>
              /\ inv'[p].pc = "tokenReturned" /\ ~inv'[p].tokenOk
              /\ log'[p].tokenOutcome = "NotAuthenticated"
              /\ log'[p].tokenRequests = 0 /\ log'[p].eventRequests = <<>>]_vars

C1_Witness ==
    \E p \in Procs :
        /\ TokenReturned(p) /\ log[p].tokenOutcome = "NotAuthenticated"
        /\ settings.refreshToken = "" /\ settings.clientId # ""

\* C2: whenever ensureValidAccessToken is called with a non-empty refreshToken, a
\* non-empty accessToken and accessTokenExpiry > now + 60000, it returns true in
\* that very step without a request and without a save, and leaves the settings
\* and the stored data as they were, so that a repeated call does the same.
C2_FastPath ==
    [][\A p \in Procs :
          (/\ Called(p) /\ settings.refreshToken # "" /\ settings.accessToken # ""
           /\ settings.accessTokenExpiry > clock + BufferMs) =>
              /\ inv'[p].pc = "tokenReturned" /\ inv'[p].tokenOk
              /\ log'[p].tokenOutcome = "FastPath"
              /\ log'[p].tokenRequests = 0 /\ log'[p].saves = 0
              /\ log'[p].notices = <<>>
              /\ settings' = settings /\ stored' = stored /\ clock' = clock]_vars

C2_Witness ==
    \E p \in Procs :
        /\ TokenReturned(p) /\ log[p].tokenOutcome = "FastPath"
        /\ settings.accessTokenExpiry > clock + BufferMs

\* C3 (as claimed): in the step in which ensureValidAccessToken reports success,
\* by the fast path or after a refresh, the stored access token is non-empty and
\* accessTokenExpiry > now + 60000 at that moment.
C3_SuccessMeansUsable ==
    [][\A p \in Procs :
          (~TokenReturned(p) /\ inv'[p].pc = "tokenReturned" /\ inv'[p].tokenOk) =>
              (settings'.accessToken # "" /\ settings'.accessTokenExpiry > clock' + BufferMs)]_vars

\* C4 (as claimed): the step that handles a response with an access token sets
\* accessTokenExpiry to the call instant plus expires_in * 1000, and to the call
\* instant plus 3600000 exactly when expires_in is absent.
C4_ExpiryFromExpiresIn ==
    [][\A p \in Procs :
          (inv[p].pc = "awaitRefresh" /\ inv'[p].pc = "awaitSave") =>
              LET e == inv'[p].data.expires_in
              IN  settings'.accessTokenExpiry =
                     inv[p].now + (IF e.present THEN e.value * MsPerSecond
                                   ELSE DefaultExpiresIn * MsPerSecond)]_vars

\* C5: the step in which ensureValidAccessToken handles a response without an
\* access token reports failure and changes neither the settings (refreshToken,
\* accessToken, accessTokenExpiry among them) nor the stored data; the call step
\* before it changed nothing either.
C5_RejectedLeavesCredential ==
    [][\A p \in Procs :
          /\ (inv[p].pc = "awaitRefresh" /\ log'[p].tokenOutcome = "RefreshRejected") =>
                /\ settings' = settings /\ stored' = stored
                /\ inv'[p].pc = "tokenReturned" /\ ~inv'[p].tokenOk
          /\ Called(p) => (settings' = settings /\ stored' = stored)]_vars

C5_Witness ==
    \E p \in Procs :
        /\ TokenReturned(p) /\ log[p].tokenOutcome = "RefreshRejected"
        /\ settings.accessToken = "at0"

\* C6: an invocation of ensureValidAccessToken has completed one save when it
\* returns after a successful refresh, and none on every other outcome; no
\* invocation ever completes more than one.
C6_PersistsOnceOnRefresh ==
    \A p \in Procs :
        /\ log[p].saves <= 1
        /\ log[p].tokenOutcome = "Refreshed" => log[p].saves = 1
        /\ log[p].tokenOutcome \in {"NotAuthenticated", "FastPath", "RefreshRejected",
                                     "TransportFailure"} => log[p].saves = 0

C6_Witness ==
    \E p, q \in Procs :
        /\ log[p].tokenOutcome = "Refreshed" /\ log[p].saves = 1
        /\ stored.accessToken = "at1"
        /\ log[q].tokenOutcome = "TransportFailure" /\ log[q].saves = 0

\* fetchAndInsertEvents of p has ended past the sort: inv[p].allEvents is the
\* sorted array, log[p].gathered the array as the loop had filled it.
Merged(p) == inv[p].pc = "done" /\ log[p].outcome \in {"Inserted", "NoActiveNote"}

\* The start instant of an element is a valid one.
HasInstant(x) == ~x.startTime.isNull /\ x.startTime.valid

SameInstant(x, y) ==
    \/ x.startTime.isNull /\ y.startTime.isNull
    \/ HasInstant(x) /\ HasInstant(y) /\ x.startTime.time = y.startTime.time

AllDayOf(s) == SelectSeq(s, LAMBDA x : x.isAllDay)

\* C7 (as claimed): in the sorted array every all-day event precedes every timed
\* event, timed events are non-decreasing by start instant, and events with equal
\* (isAllDay, start instant) are in non-decreasing calendarIndex order.
C7_MergeOrder ==
    \A p \in Procs :
        Merged(p) =>
            LET out == inv[p].allEvents
            IN  \A i, j \in 1..Len(out) :
                    i < j =>
                        /\ ~(~out[i].isAllDay /\ out[j].isAllDay)
                        /\ (/\ ~out[i].isAllDay /\ ~out[j].isAllDay
                            /\ HasInstant(out[i]) /\ HasInstant(out[j]))
                              => out[i].startTime.time <= out[j].startTime.time
                        /\ (out[i].isAllDay = out[j].isAllDay /\ SameInstant(out[i], out[j]))
                              => out[i].calendarIndex <= out[j].calendarIndex

\* C8 (as claimed): of two all-day events whose start dates both resolve to an
\* instant, the one with the earlier instant comes first in the sorted array.
C8_AllDayByInstant ==
    \A p \in Procs :
        Merged(p) =>
            LET out == inv[p].allEvents
            IN  \A i, j \in 1..Len(out) :
                    (/\ i < j /\ out[i].isAllDay /\ out[j].isAllDay
                     /\ HasInstant(out[i]) /\ HasInstant(out[j]))
                        => out[i].startTime.time <= out[j].startTime.time

\* C8 (amended): the comparator does not look at the start instant of all-day
\* events. When it is consistent on the gathered events, the all-day events are
\* in non-decreasing calendarIndex order in the sorted array, whatever their start
\* dates, and they stand in the order in which the loop gathered them.
C8_AllDayKeepRetrievalOrder ==
    \A p \in Procs :
        (Merged(p) /\ Consistent(log[p].gathered)) =>
            LET out == inv[p].allEvents
            IN  /\ \A i, j \in 1..Len(out) :
                      (i < j /\ out[i].isAllDay /\ out[j].isAllDay)
                          => out[i].calendarIndex <= out[j].calendarIndex
                /\ AllDayOf(out) = AllDayOf(log[p].gathered)

\* Two all-day events of different calendars, the later one in the array starting
\* on the earlier date.
C8_Witness ==
    \E p \in Procs :
        /\ Merged(p) /\ Consistent(log[p].gathered)
        /\ LET out == inv[p].allEvents
           IN  \E i, j \in 1..Len(out) :
                  /\ i < j /\ out[i].isAllDay /\ out[j].isAllDay
                  /\ HasInstant(out[i]) /\ HasInstant(out[j])
                  /\ out[j].startTime.time < out[i].startTime.time
                  /\ out[i].calendarIndex < out[j].calendarIndex

\* C9 (as claimed): sorting any permutation of the gathered events yields the one
\* order the invocation produced.
C9_PermutationIndependent ==
    \A p \in Procs :
        Merged(p) =>
            \A perm \in ArrayPermutations(log[p].gathered) :
                SortOutcomes(perm) = {inv[p].allEvents}

\* C10 (as claimed): a calendar whose retrieval failed (the inner catch ran for it)
\* has no event in the merged array, its diagnostic names it, and the invocation
\* goes on to its regular end.
C10_FailedSourceContributesNothing ==
    \A p \in Procs :
        \A k \in log[p].failed :
            /\ \A i \in 1..Len(inv[p].allEvents) : inv[p].allEvents[i].calendarIndex # k
            /\ \E n \in 1..Len(log[p].notices) : log[p].notices[n].kind = "SourceError"
            /\ inv[p].pc = "done" =>
                  log[p].outcome \in {"NoEvents", "Inserted", "NoActiveNote"}

\* C11 (as claimed): an invocation of fetchAndInsertEvents that runs with an empty
\* calendar list issues no token request and no event-list request, and ends
\* with the "no calendars configured" notice.
C11_NoSourcesBeforeNetwork ==
    \A p \in Procs :
        (settings.calendars = <<>> /\ inv[p].pc # "idle") =>
            /\ log[p].tokenRequests = 0 /\ log[p].eventRequests = <<>>
            /\ inv[p].pc = "done" => log[p].outcome = "NoCalendars"

\* C12: the step in which the loop over the calendars ends with an empty
\* allEvents ends the invocation in the "no events" outcome: its last notice is
\* the "No events on <date>" notice naming the requested day, and nothing is
\* inserted into the note, also when every calendar's retrieval failed.
C12_EmptyMergeIsNoEvents ==
    [][\A p \in Procs :
          (inv[p].pc = "awaitEvents" /\ inv'[p].pc = "done" /\ inv'[p].allEvents = <<>>) =>
              /\ log'[p].outcome = "NoEvents"
              /\ editor' = editor
              /\ LET last == log'[p].notices[Len(log'[p].notices)]
                 IN  last.kind = "NoEvents" /\ last.text = inv[p].date.day
              /\ log'[p].text.lines = <<>>]_vars

\* One calendar failed and the other returned no item.
C12_Witness ==
    \E p \in Procs :
        /\ inv[p].pc = "done" /\ log[p].outcome = "NoEvents"
        /\ log[p].failed # {} /\ Cardinality(log[p].failed) < Len(settings.calendars)
        /\ editor = <<>>

\* C13 (as claimed): in the rendered block the line of an all-day event (no
\* start.dateTime) has the start-time marker "All day", the line of a timed
\* event its start.dateTime as received.
C13_StartMarker ==
    \A p \in Procs :
        Merged(p) =>
            \A k \in 1..Len(inv[p].allEvents) :
                log[p].text.lines[k].startTime =
                    IF inv[p].allEvents[k].isAllDay THEN "All day"
                    ELSE inv[p].allEvents[k].event.dateTime

\* exchangeCodeForToken has ended in this step, by a return or in its catch.
ExchangeEnds == tab.pc # "idle" /\ tab'.pc = "idle"

TokenFields(s) ==
    [refreshToken |-> s.refreshToken, accessToken |-> s.accessToken,
     accessTokenExpiry |-> s.accessTokenExpiry]

\* C14 (as claimed): in the step in which exchangeCodeForToken reports success,
\* refreshToken is non-empty, accessToken is non-empty and
\* accessTokenExpiry > now + 60000.
C14_ExchangeYieldsUsable ==
    [][(ExchangeEnds /\ tab'.outcome = "Complete") =>
          /\ settings'.refreshToken # ""
          /\ settings'.accessToken # ""
          /\ settings'.accessTokenExpiry > clock' + BufferMs]_vars

\* C15 (as claimed): the Authorization Code handler run without a client id or
\* secret issues no request and changes no setting; and every step that ends
\* exchangeCodeForToken otherwise than in success leaves refreshToken,
\* accessToken and accessTokenExpiry as they were when it was called.
C15_ExchangeFailureLeavesCredential ==
    [][/\ (/\ tab'.clicks # tab.clicks /\ tab'.handler = "authCode"
           /\ MissingCredentials(settings)) =>
              (tab'.pc = "idle" /\ settings' = settings /\ stored' = stored)
       /\ (ExchangeEnds /\ tab'.outcome # "Complete") =>
              TokenFields(settings') = TokenFields(tab.before)]_vars

\* p calls ensureValidAccessToken with a refresh token and a stale access token.
CalledStale(p) ==
    /\ Called(p) /\ settings.refreshToken # ""
    /\ ~(settings.accessToken # "" /\ settings.accessTokenExpiry > clock + BufferMs)

\* C16: nothing in ensureValidAccessToken looks at another invocation. A call
\* made with a stale token issues its own refresh request, whatever the other
\* command's invocation is doing; each response with an access token overwrites
\* accessToken and accessTokenExpiry with its own values; each completed save
\* writes what its invocation handed to saveData.
C16_NoMutualExclusion ==
    [][\A p \in Procs :
          /\ CalledStale(p) =>
                (inv'[p].pc = "awaitRefresh" /\ log'[p].tokenRequests = 1)
          /\ (inv[p].pc = "awaitRefresh" /\ inv'[p].pc = "awaitSave") =>
                /\ settings'.accessToken = inv'[p].data.access_token
                /\ settings'.accessTokenExpiry =
                      ExpiryFrom(inv[p].now, inv'[p].data.expires_in)
          /\ (inv[p].pc = "awaitSave" /\ inv'[p].pc = "tokenReturned" /\ inv'[p].tokenOk) =>
                (stored' = inv[p].saving /\ log'[p].saves = 1)]_vars

\* Two overlapping invocations: both called at the same instant with the token
\* stale, each issued a request; one has written its token, the other's token
\* has overwritten it in the settings and its save is under way.
C16_Witness ==
    \E p, q \in Procs :
        /\ p # q
        /\ log[p].tokenOutcome = "Refreshed"
        /\ log[p].tokenRequests = 1 /\ log[p].saves = 1
        /\ inv[q].pc = "awaitSave" /\ log[q].tokenRequests = 1
        /\ inv[q].now = clock /\ calls = 2
        /\ stored.accessToken = "at1" /\ stored.accessTokenExpiry > clock + BufferMs
        /\ inv[q].saving.accessTokenExpiry # stored.accessTokenExpiry
        /\ settings = inv[q].saving

\* C17: ensureValidAccessToken returns true after a refresh, and
\* exchangeCodeForToken raises its success notice, only in the step in which the
\* save of the updated settings completes (data.json then holds what was handed
\* to saveData, the new token included); while that save is awaited no success
\* has been reported; a step that ends either operation without the save
\* completed reports a failure.
C17_WrittenThroughBeforeSuccess ==
    [][/\ \A p \in Procs :
            /\ (inv'[p].pc = "tokenReturned" /\ inv[p].pc # "tokenReturned"
                /\ log'[p].tokenOutcome = "Refreshed") =>
                   /\ inv[p].pc = "awaitSave"
                   /\ stored' = inv[p].saving
                   /\ stored'.accessToken = inv[p].data.access_token
                   /\ log'[p].saves = log[p].saves + 1
            /\ inv[p].pc = "awaitSave" => log[p].tokenOutcome # "Refreshed"
            /\ (inv[p].pc = "awaitSave" /\ inv'[p].pc = "tokenReturned"
                /\ log'[p].saves = log[p].saves) => ~inv'[p].tokenOk
       /\ (ExchangeEnds /\ tab'.outcome = "Complete") =>
             /\ tab.pc = "awaitSave"
             /\ stored' = tab.saving
             /\ stored'.refreshToken # ""
       /\ (tab.pc = "awaitSave" /\ ExchangeEnds /\ stored' # tab.saving) =>
             tab'.outcome = "ExchangeError"]_vars

\* The exchange was completed and saved, then a refresh was completed and saved.
C17_Witness ==
    /\ tab.outcome = "Complete" /\ tab.pc = "idle"
    /\ log["today"].tokenOutcome = "Refreshed" /\ TokenReturned("today")
    /\ stored.refreshToken = "rt1" /\ stored.accessToken = "at1"

\* A step of ensureValidAccessToken handling its response, or of
\* exchangeCodeForToken handling its response.
TokenWriterStep ==
    \/ \E p \in Procs : inv[p].pc = "awaitRefresh" /\ inv'[p].pc # "awaitRefresh"
    \/ tab.pc = "awaitExchange" /\ tab'.pc # "awaitExchange"

\* The step is the run of the settings-tab handler of that name.
HandlerStep(name) == tab'.clicks = tab.clicks + 1 /\ tab'.handler = name

\* C18 (as claimed): every step that changes a field of the Credential (clientId,
\* clientSecret, refreshToken, accessToken, accessTokenExpiry) is a step of
\* ensureValidAccessToken or of exchangeCodeForToken.
C18_CredentialWriters ==
    [][Credential(settings') # Credential(settings) => TokenWriterStep]_vars

\* C18 (amended): refreshToken, accessToken and accessTokenExpiry change only in
\* the response-handling step of ensureValidAccessToken or exchangeCodeForToken;
\* clientId changes only in the Client ID onChange handler and clientSecret only
\* in the Client Secret onChange handler, and these two change nothing else of
\* the Credential. Event retrieval, sorting, rendering, insertion and the
\* other settings-tab handlers change no field of it.
C18_CredentialWritersAndFields ==
    [][/\ TokenFields(settings') # TokenFields(settings) => TokenWriterStep
       /\ settings'.clientId # settings.clientId => HandlerStep("clientId")
       /\ settings'.clientSecret # settings.clientSecret => HandlerStep("clientSecret")
       /\ (HandlerStep("clientId") \/ HandlerStep("clientSecret")) =>
             TokenFields(settings') = TokenFields(settings)]_vars

\* The client id was edited in the settings tab, the refresh token came from
\* the exchange and the access token from a refresh.
C18_Witness ==
    /\ settings.clientId = "cid2" /\ settings.refreshToken = "rt1"
    /\ settings.accessToken = "at1"
    /\ Len(log["today"].eventRequests) > 0

\* C19 (as claimed): while a request for a calendar is awaited it is the only one
\* outstanding and the calendars before it were requested once each; when the
\* loop ends, the event-list requests issued are the ids of the configured
\* calendars, each once, in configured order; an invocation issues at most one
\* token request.
C19_OneRequestPerSourceInOrder ==
    [][\A p \in Procs :
          /\ log'[p].tokenRequests <= 1
          /\ inv'[p].pc = "awaitEvents" =>
                Len(log'[p].eventRequests) = inv'[p].calendarIndex + 1
          /\ (inv[p].pc = "awaitEvents" /\ inv'[p].pc = "done") =>
                log'[p].eventRequests =
                    [k \in 1..Len(settings'.calendars) |-> settings'.calendars[k].id]]_vars

\* C20: an event-list request is issued only by an invocation whose
\* ensureValidAccessToken returned true (fast path or refresh); an invocation
\* whose ensureValidAccessToken returned false (not authenticated, refresh
\* rejected, request or save failed) ends in its next step with no event-list
\* request and with the note untouched.
C20_NoFetchWithoutToken ==
    [][\A p \in Procs :
          /\ log'[p].eventRequests # <<>> =>
                log'[p].tokenOutcome \in {"FastPath", "Refreshed"}
          /\ (inv[p].pc = "tokenReturned" /\ ~inv[p].tokenOk /\ inv'[p] # inv[p]) =>
                /\ inv'[p].pc = "done" /\ log'[p].outcome = "AuthFailed"
                /\ log'[p].eventRequests = <<>>
                /\ editor' = editor]_vars

\* One invocation ended after a rejected refresh, the other after a failed
\* request; the note is empty.
C20_Witness ==
    \E p, q \in Procs :
        /\ inv[p].pc = "done" /\ log[p].outcome = "AuthFailed"
        /\ log[p].tokenOutcome = "RefreshRejected"
        /\ inv[q].pc = "done" /\ log[q].outcome = "AuthFailed"
        /\ log[q].tokenOutcome = "TransportFailure"
        /\ editor = <<>>

\* The events the calendars whose retrieval succeeded returned, as the loop
\* gathers them: calendar by calendar in configured order.
RECURSIVE ReturnedBySucceeded(_, _, _)
ReturnedBySucceeded(calendars, failed, calendarIndex) ==
    IF calendarIndex >= Len(calendars) THEN <<>>
    ELSE LET calendar == calendars[calendarIndex + 1]
             events == IF calendarIndex \in failed \/ calendar.id \notin DOMAIN remote
                       THEN <<>> ELSE remote[calendar.id]
         IN  [k \in 1..Len(events) |-> Normalize(events[k], calendar, calendarIndex)]
                \o ReturnedBySucceeded(calendars, failed, calendarIndex + 1)

\* C21 (as claimed): the sorted array is a permutation of the events returned by
\* the calendars whose retrieval succeeded, the rendered block has one line per
\* element of it, in its order, and the success notice reports that number.
C21_EventConservation ==
    \A p \in Procs :
        Merged(p) =>
            LET out == inv[p].allEvents
                expected == ReturnedBySucceeded(settings.calendars, log[p].failed, 0)
            IN  /\ out \in ArrayPermutations(expected)
                /\ log[p].text.lines = [k \in 1..Len(out) |-> RenderLine(out[k])]
                /\ log[p].outcome = "Inserted" =>
                      log[p].notices[Len(log[p].notices)].events = Len(log[p].text.lines)

\* C22: no step of ensureValidAccessToken or fetchAndInsertEvents, on any
\* outcome and whatever the other command's invocation is doing, changes
\* refreshToken, clientId or clientSecret; so a refreshToken that is non-empty
\* stays non-empty (and the same) across any sequence of their calls.
C22_RefreshTokenAndClientKept ==
    [][\A p \in Procs :
          inv'[p] # inv[p] =>
              /\ settings'.refreshToken = settings.refreshToken
              /\ settings'.clientId = settings.clientId
              /\ settings'.clientSecret = settings.clientSecret
              /\ stored'.refreshToken = stored.refreshToken]_vars

\* After a saved refresh by one command and a fast-path fetch by the other the
\* refresh token and the client id are the ones the session started with.
C22_Witness ==
    \E p, q \in Procs :
        /\ log[p].tokenOutcome = "Refreshed" /\ inv[p].pc = "done"
        /\ log[q].tokenOutcome = "FastPath" /\ log[q].outcome = "Inserted"
        /\ settings.refreshToken = "rt0" /\ stored.refreshToken = "rt0"
        /\ settings.clientId = "cid" /\ settings.accessToken = "at1"

\* C23 (as claimed): after every step of the calendar-row handlers, also of a
\* click handled while an earlier handler awaits its save and the rows are the
\* ones rendered before it, every element of the calendar list is a calendar;
\* a move-up or move-down click leaves a permutation of the list; a delete
\* click removes exactly one element, the calendar shown on the clicked row.
C23_RowHandlersKeepList ==
    [][/\ \A k \in 1..Len(settings'.calendars) : IsCalendar(settings'.calendars[k])
       /\ (HandlerStep("moveUp") \/ HandlerStep("moveDown")) =>
             settings'.calendars \in ArrayPermutations(settings.calendars)
       /\ HandlerStep("delete") =>
             \E k \in 1..Len(settings.calendars) :
                 /\ settings.calendars[k] = tab.shown[tab'.row + 1]
                 /\ settings'.calendars = RemoveAt(settings.calendars, k)]_vars

====
